---- MODULE Spec2Model ----
(***************************************************************************)
(* State-machine model of the stand-alone GLSL compiler driver             *)
(* src/glsl/glsl_compiler.cpp: load_text_file, usage_fail, compile_shader  *)
(* and main.  The stages the driver calls (preprocess, the parser,         *)
(* _mesa_ast_to_hir, do_common_optimization, validate_ir_tree,             *)
(* link_shaders) and the operating system (open, fstat, read) are the      *)
(* environment: their results are chosen nondeterministically.             *)
(***************************************************************************)
EXTENDS Integers, Sequences, FiniteSets, TLC

(* ------------------------------ bounds -------------------------------- *)
\* largest number of positional arguments on a command line
MaxFiles == 2
\* largest st_size reported by fstat
MaxSize == 2
\* largest number of instructions _mesa_ast_to_hir leaves in shader->ir
MaxIR == 2

(* ----------------------- program constants ---------------------------- *)
EXIT_SUCCESS == 0
EXIT_FAILURE == 1
\* positions of main in which the process has been killed by a signal
\* (abort() in validate_ir_tree, a null-pointer store): its wait status
\* is not 0
SIGABRT == "SIGABRT"
SIGSEGV == "SIGSEGV"
GL_VERTEX_SHADER == "GL_VERTEX_SHADER"
GL_GEOMETRY_SHADER == "GL_GEOMETRY_SHADER"
GL_FRAGMENT_SHADER == "GL_FRAGMENT_SHADER"
\* NULL pointer / zeroed field of hieralloc_zero
NULL == "NULL"

(* --------------------------- command line ----------------------------- *)
\* file names are sequences of characters, as strlen/strncmp see them
Paths ==
  { <<"a", ".", "v", "e", "r", "t">>,
    <<"b", ".", "g", "e", "o", "m">>,
    <<"c", ".", "f", "r", "a", "g">>,
    <<"d", "d", ".", "t", "x", "t">>,
    <<"a", "a", ".", "g", "e", "o", "m">>,
    <<".", "v", "e", "r", "t">> }

\* the positional arguments argv[optind..argc-1] left by getopt_long
ArgLists == UNION { [1..n -> Paths] : n \in 0..MaxFiles }

\* const char *const ext = & argv[optind][len - 5];
ext(path) == SubSeq(path, Len(path) - 4, Len(path))

\* strncmp(lit, ext, 5) == 0
strncmp5(lit, e) == lit = e

VARIABLES
  files,        \* positional arguments (argv from optind on)
  dump_ast, dump_hir, dump_lir, do_link,   \* the global option flags
  pc,           \* position of main
  optind,       \* index of the current positional argument (1-based)
  status,       \* main's local `status'
  Shaders,      \* whole_program->Shaders[0..NumShaders-1]
  LinkStatus,   \* whole_program->LinkStatus
  InfoLog,      \* whole_program->InfoLog
  exit_code,    \* status given to exit() or returned by main, -1 before
  stdout,       \* what has been printed
  lf,           \* the running (or last) load_text_file invocation
  cs,           \* the running (or last) compile_shader invocation
  loads,        \* number of load_text_file invocations
  opens,        \* number of open(2) calls
  compiles,     \* number of compile_shader invocations
  links,        \* number of link_shaders invocations
  runA, runB,   \* two compile_shader runs on the same source (SpecDump)
  flagsA, flagsB

mainVars == <<files, dump_ast, dump_hir, dump_lir, do_link, pc, optind,
              status, Shaders, LinkStatus, InfoLog, exit_code, stdout,
              lf, cs, loads, opens, compiles, links>>
pairVars == <<runA, runB, flagsA, flagsB>>
vars == <<mainVars, pairVars>>

NumShaders == Len(Shaders)
argc_gt_optind == optind <= Len(files)

Flags == [dump_ast |-> dump_ast, dump_hir |-> dump_hir, dump_lir |-> dump_lir]

(* -------------------------- load_text_file ---------------------------- *)
\* locals of load_text_file at entry: text = NULL, total_read = 0; bytes
\* is the result of the last read, nul the index of the '\0' written into
\* text (-1: none written)
lfIdle == [pc |-> "idle", text |-> NULL, st_size |-> 0, total_read |-> 0,
           bytes |-> 0, nul |-> -1, fd |-> -1]

\* int fd = open(file_name, O_RDONLY); if (fd < 0) return NULL;
load_open(l, ok) ==
  IF ok THEN [l EXCEPT !.fd = 3, !.pc = "fstat"]
        ELSE [l EXCEPT !.fd = -1, !.pc = "return"]

\* if (fstat(fd, &st) == 0) { text = hieralloc_size(ctx, st.st_size + 1);
\*    if (text != NULL) do { ... }
load_fstat(l, ok, size, alloc_ok) ==
  IF ~ok THEN [l EXCEPT !.pc = "close"]
  ELSE IF ~alloc_ok THEN [l EXCEPT !.st_size = size, !.pc = "close"]
  ELSE [l EXCEPT !.st_size = size, !.text = "buf", !.pc = "read"]

\* one iteration of the do/while: bytes is the result of read(2)
load_read(l, bytes) ==
  IF bytes < 0
  THEN [l EXCEPT !.bytes = bytes, !.text = NULL, !.pc = "terminate"]
  ELSE IF bytes = 0 THEN [l EXCEPT !.bytes = bytes, !.pc = "terminate"]
  ELSE LET tr == l.total_read + bytes
       IN [l EXCEPT !.bytes = bytes, !.total_read = tr,
                    !.pc = IF tr < l.st_size THEN "read" ELSE "terminate"]

\* the terminator stored at the file length instead of at total_read
load_terminate_at_size(l, fault) ==
  IF l.text = NULL
  THEN [l EXCEPT !.pc = IF fault THEN "segv" ELSE "close"]
  ELSE [l EXCEPT !.nul = l.st_size, !.pc = "close"]

\* text[total_read] = '\0';  With text == NULL (after a failed read) the
\* store goes through a null pointer: undefined behaviour.  `fault' is the
\* outcome the build produces: TRUE the process dies with SIGSEGV, FALSE
\* the store has no visible effect (e.g. it was optimised away).
load_terminate(l, fault) ==
  IF l.text = NULL
  THEN [l EXCEPT !.pc = IF fault THEN "segv" ELSE "close"]
  ELSE [l EXCEPT !.nul = l.total_read, !.pc = "close"]

\* close(fd); return text;
load_close(l) == [l EXCEPT !.pc = "return"]

(* -------------------------- compile_shader ---------------------------- *)
\* the third argument of do_common_optimization(shader->ir, false, 32)
max_unroll_iterations == 32

\* the number of entries of gl_shader::builtins_to_link
BuiltinsCapacity == 16

\* what lowering can leave in state->num_builtins_to_link: none, a full
\* array, one more than the unit's array holds
BuiltinCounts == { 0, BuiltinsCapacity, BuiltinsCapacity + 1 }

\* what the parser can leave in state->translation_unit
AstLists == { <<>>, <<"decl">> }

\* a gl_shader as hieralloc_zero leaves it
zeroShader == [Type |-> "0", Source |-> NULL, CompileStatus |-> FALSE,
               InfoLog |-> NULL]

\* the state of one compile_shader run: the _mesa_glsl_parse_state it
\* creates (error, info_log, translation_unit), the shader it works on,
\* the instruction list shader->ir points to (NULL before it is created,
\* then its number of instructions), the sequence of stage invocations so
\* far, the local `progress' of the optimization loop and what its dump
\* hooks printed; then what the copy-out at the end of the run reads and
\* writes: the allocation context that owns each object the unit ends up
\* pointing to (owner), the end-of-run steps taken so far (fin), how often
\* the parse state was freed (frees), how often CompileStatus was assigned
\* (status_writes), the budgets handed to the optimization passes, whether
\* the IR is known to be a fixpoint of the pass, the parse state's
\* num_builtins_to_link and the unit's copy of it (count, and the number of
\* array entries the memcpy wrote)
noOwner == [info_log |-> "none", symbols |-> "none", ir_list |-> "none",
            ir_nodes |-> "none"]

csIdle == [pc |-> "idle", error |-> FALSE, info_log |-> <<>>,
           translation_unit |-> <<>>, shader |-> zeroShader, ir |-> NULL,
           progress |-> FALSE, trace |-> <<>>, out |-> <<>>,
           owner |-> noOwner, fin |-> <<>>, frees |-> 0,
           status_writes |-> 0, budgets |-> {}, fixpoint |-> FALSE,
           num_builtins_to_link |-> 0,
           unit_builtins |-> [count |-> 0, written |-> 0]]

\* new(shader) _mesa_glsl_parse_state(ctx, shader->Type, shader): the
\* state is a child of the shader, and its third argument (the shader) is
\* the context its own allocations (info_log, symbols) are made in
compile_enter(sh) ==
  [csIdle EXCEPT !.pc = "preprocess", !.shader = sh,
                 !.owner.info_log = "shader", !.owner.symbols = "shader"]

\* state->error = preprocess(state, &source, &state->info_log, ...);
cs_preprocess(s, err) ==
  [s EXCEPT !.error = err,
            !.info_log = IF err THEN <<"preprocess error">> ELSE <<>>,
            !.trace = Append(@, "preprocess"),
            !.pc = "parse"]

\* the parser called without the test of state->error
cs_parse_unguarded(s, err, ast) ==
  [s EXCEPT !.error = s.error \/ err,
            !.info_log = IF err THEN Append(@, "syntax error") ELSE @,
            !.translation_unit = ast,
            !.trace = Append(@, "parse"),
            !.pc = "dump_ast"]

\* the parser called a second time on the same state
cs_parse_twice(s, err, ast) ==
  IF ~s.error
  THEN [s EXCEPT !.error = err,
                 !.info_log = IF err THEN Append(@, "syntax error") ELSE @,
                 !.translation_unit = ast,
                 !.trace = @ \o <<"parse", "parse">>,
                 !.pc = "dump_ast"]
  ELSE [s EXCEPT !.pc = "dump_ast"]

\* if (!state->error) { lexer_ctor; _mesa_glsl_parse(state); lexer_dtor }
\* the parser records a syntax error in state->error and state->info_log
cs_parse(s, err, ast) ==
  IF ~s.error
  THEN [s EXCEPT !.error = err,
                 !.info_log = IF err THEN Append(@, "syntax error") ELSE @,
                 !.translation_unit = ast,
                 !.trace = Append(@, "parse"),
                 !.pc = "dump_ast"]
  ELSE [s EXCEPT !.pc = "dump_ast"]

\* foreach_list_const(n, &state->translation_unit) ast->print();
print_ast(tu) == [i \in 1..Len(tu) |-> "ast node"]

\* if (dump_ast) { foreach ... ast->print(); printf("\n\n"); }
cs_dump_ast(s, f) ==
  IF f.dump_ast
  THEN [s EXCEPT !.out = @ \o print_ast(s.translation_unit) \o <<"\n\n">>,
                 !.pc = "lower"]
  ELSE [s EXCEPT !.pc = "lower"]

\* lowering called without the test of the AST list
cs_lower_on_empty(s, err, n, nb) ==
  IF ~s.error
  THEN [s EXCEPT !.ir = n,
                 !.owner.ir_list = "shader",
                 !.owner.ir_nodes = IF n > 0 THEN "state" ELSE "none",
                 !.num_builtins_to_link = nb,
                 !.error = err,
                 !.info_log = IF err THEN Append(@, "semantic error") ELSE @,
                 !.trace = Append(@, "lower"),
                 !.pc = "dump_hir"]
  ELSE [s EXCEPT !.ir = 0, !.owner.ir_list = "shader", !.pc = "dump_hir"]

\* shader->ir = new(shader) exec_list;
\* if (!state->error && !state->translation_unit.is_empty())
\*    _mesa_ast_to_hir(shader->ir, state);
\* lowering leaves n instructions in shader->ir, allocated in the parse
\* state, and nb builtin shaders in state->builtins_to_link, and may
\* record an error
cs_lower(s, err, n, nb) ==
  IF ~s.error /\ s.translation_unit # <<>>
  THEN [s EXCEPT !.ir = n,
                 !.owner.ir_list = "shader",
                 !.owner.ir_nodes = IF n > 0 THEN "state" ELSE "none",
                 !.num_builtins_to_link = nb,
                 !.error = err,
                 !.info_log = IF err THEN Append(@, "semantic error") ELSE @,
                 !.trace = Append(@, "lower"),
                 !.pc = "dump_hir"]
  ELSE [s EXCEPT !.ir = 0, !.owner.ir_list = "shader", !.pc = "dump_hir"]

\* validate_ir_tree(ir): returns on well-formed IR, abort()s otherwise; an
\* empty list has nothing to be malformed
\* (where: the call site, as it is entered in the trace)
validate_ir_tree(s, valid, next, where) ==
  [s EXCEPT !.trace = Append(@, where),
            !.pc = IF valid \/ s.ir = 0 THEN next ELSE "aborted"]

\* if (!state->error && dump_hir) { validate_ir_tree(shader->ir);
\*                                  _mesa_print_ir(shader->ir, state); }
cs_dump_hir(s, f, valid) ==
  IF ~s.error /\ f.dump_hir
  THEN LET v == validate_ir_tree(s, valid, "opt_enter", "validate (dump-hir)")
       IN IF v.pc # "aborted" THEN [v EXCEPT !.out = Append(@, "hir")] ELSE v
  ELSE [s EXCEPT !.pc = "opt_enter"]

\* the loop entered without the test of the instruction list
cs_opt_enter_on_empty(s) ==
  IF ~s.error
  THEN [s EXCEPT !.pc = "opt_pass"]
  ELSE [s EXCEPT !.pc = "dump_lir"]

\* if (!state->error && !shader->ir->is_empty()) { bool progress; do {
cs_opt_enter(s) ==
  IF ~s.error /\ s.ir # 0
  THEN [s EXCEPT !.pc = "opt_pass"]
  ELSE [s EXCEPT !.pc = "dump_lir"]

\* do_common_optimization(ir, false, 32): one full pass over the IR.  A
\* pass that reports progress leaves strictly fewer instructions (n < ir);
\* a pass that reports none leaves the IR as it was.  The pass is a
\* function of the IR: on an IR it has once left unchanged (fixpoint) it
\* reports no progress again.
do_common_optimization(ir, fixpoint, n) ==
  IF ~fixpoint /\ n < ir THEN [ir |-> n, progress |-> TRUE]
                          ELSE [ir |-> ir, progress |-> FALSE]

\* the loop with its condition inverted
loop_again_inverted(progress) == ~progress

\* } while (progress);
loop_again(progress) == progress

\* progress = do_common_optimization(shader->ir, false, 32);
cs_opt_pass(s, n) ==
  LET r == do_common_optimization(s.ir, s.fixpoint, n)
  IN [s EXCEPT !.ir = r.ir,
               !.owner.ir_nodes = IF r.ir > 0 THEN @ ELSE "none",
               !.fixpoint = ~r.progress,
               !.budgets = @ \cup {max_unroll_iterations},
               !.progress = r.progress,
               !.trace = Append(@, "optimize"),
               !.pc = IF loop_again(r.progress) THEN "opt_pass"
                                                ELSE "validate"]

\* validate_ir_tree(shader->ir); }   (after the loop)
cs_validate(s, valid) == validate_ir_tree(s, valid, "dump_lir", "validate")

\* if (!state->error && dump_lir) _mesa_print_ir(shader->ir, state);
cs_dump_lir(s, f) ==
  IF ~s.error /\ f.dump_lir
  THEN [s EXCEPT !.out = Append(@, "lir"), !.pc = "finish"]
  ELSE [s EXCEPT !.pc = "finish"]

\* shader->symbols = state->symbols;
\* shader->CompileStatus = !state->error; shader->Version = ...;
\* memcpy(shader->builtins_to_link, state->builtins_to_link,
\*        sizeof(shader->builtins_to_link[0]) * state->num_builtins_to_link);
\* shader->num_builtins_to_link = state->num_builtins_to_link;
\* if (shader->InfoLog) hieralloc_free(shader->InfoLog);
\* shader->InfoLog = state->info_log;
cs_copy_out(s) ==
  [s EXCEPT !.shader.CompileStatus = ~s.error,
            !.status_writes = @ + 1,
            !.unit_builtins = [count   |-> s.num_builtins_to_link,
                               written |-> s.num_builtins_to_link],
            !.shader.InfoLog = s.info_log,
            !.fin = Append(@, "copy")]

\* reparent_ir(shader->ir, shader): the instructions still in the list
\* become children of the shader
reparent_ir(s) ==
  [s EXCEPT !.owner.ir_nodes = IF @ = "state" THEN "shader" ELSE @,
            !.fin = Append(@, "reparent")]

\* hieralloc_free(state);
hieralloc_free_state(s) ==
  [s EXCEPT !.frees = @ + 1, !.fin = Append(@, "free")]

\* the end of the run without reparent_ir: the list keeps instructions
\* that are children of the freed state
cs_finish_no_reparent(s) ==
  [hieralloc_free_state(cs_copy_out(s)) EXCEPT !.pc = "returned"]

\* the end of the run with the status taken for granted
cs_finish_status_true(s) ==
  [hieralloc_free_state(reparent_ir(
     [cs_copy_out(s) EXCEPT !.shader.CompileStatus = TRUE]))
   EXCEPT !.pc = "returned"]

\* the copy-out at the end of compile_shader: lines 199-214, in order
cs_finish(s) ==
  [hieralloc_free_state(reparent_ir(cs_copy_out(s))) EXCEPT !.pc = "returned"]

\* one step of a compile_shader run, by its position; o holds what the
\* stage called at that position answers
compile_step(s, f, o) ==
  CASE s.pc = "preprocess" -> cs_preprocess(s, o.err)
    [] s.pc = "parse"      -> cs_parse(s, o.err, o.ast)
    [] s.pc = "dump_ast"   -> cs_dump_ast(s, f)
    [] s.pc = "lower"      -> cs_lower(s, o.err, o.n, o.nb)
    [] s.pc = "dump_hir"   -> cs_dump_hir(s, f, o.valid)
    [] s.pc = "opt_enter"  -> cs_opt_enter(s)
    [] s.pc = "opt_pass"   -> cs_opt_pass(s, o.n)
    [] s.pc = "validate"   -> cs_validate(s, o.valid)
    [] s.pc = "dump_lir"   -> cs_dump_lir(s, f)
    [] s.pc = "finish"     -> cs_finish(s)
    [] OTHER               -> s

(* ------------------------------- main --------------------------------- *)
\* const struct option compiler_opts[]
compiler_opts == <<"glsl-es", "dump-ast", "dump-hir", "dump-lir", "link">>

\* what usage_fail prints before exit(EXIT_FAILURE)
usage_text == <<"usage">> \o compiler_opts

\* the length test off by one: a name of five characters is let through
shader_type_len5(path) ==
  IF Len(path) < 5 THEN "usage_fail"
  ELSE IF strncmp5(<<".", "v", "e", "r", "t">>, ext(path)) THEN GL_VERTEX_SHADER
  ELSE IF strncmp5(<<".", "g", "e", "o", "m">>, ext(path)) THEN GL_GEOMETRY_SHADER
  ELSE IF strncmp5(<<".", "f", "r", "a", "g">>, ext(path)) THEN GL_FRAGMENT_SHADER
  ELSE "usage_fail"

\* the shader type main derives from a file name, "usage_fail" when it
\* calls usage_fail instead
shader_type(path) ==
  IF Len(path) < 6 THEN "usage_fail"
  ELSE IF strncmp5(<<".", "v", "e", "r", "t">>, ext(path)) THEN GL_VERTEX_SHADER
  ELSE IF strncmp5(<<".", "g", "e", "o", "m">>, ext(path)) THEN GL_GEOMETRY_SHADER
  ELSE IF strncmp5(<<".", "f", "r", "a", "g">>, ext(path)) THEN GL_FRAGMENT_SHADER
  ELSE "usage_fail"

\* what link_shaders can leave in LinkStatus and InfoLog
LinkResults == { [LinkStatus |-> TRUE,  InfoLog |-> ""],
                 [LinkStatus |-> TRUE,  InfoLog |-> "warning"],
                 [LinkStatus |-> FALSE, InfoLog |-> "error"] }

\* the link result dropped: status stays EXIT_SUCCESS
link_exit_status_ignored(ls) == EXIT_SUCCESS

\* status = (whole_program->LinkStatus) ? EXIT_SUCCESS : EXIT_FAILURE;
link_exit_status(ls) == IF ls THEN EXIT_SUCCESS ELSE EXIT_FAILURE

\* the link guard without its test of status
link_wanted_unguarded(st, dl) == dl

\* if ((status == EXIT_SUCCESS) && do_link)
link_wanted(st, dl) == st = EXIT_SUCCESS /\ dl

\* the link log printed whatever it holds
log_nonempty_always(log) == TRUE

\* if (strlen(whole_program->InfoLog) > 0)
log_nonempty(log) == log # ""

\* the loop without its break: a failed unit is taken for a good one
compile_failed_never(sh) == FALSE

\* if (!shader->CompileStatus) { printf; status = EXIT_FAILURE; break; }
compile_failed(sh) == ~sh.CompileStatus

idlePair == /\ runA = csIdle /\ runB = csIdle
            /\ flagsA = [dump_ast |-> FALSE, dump_hir |-> FALSE, dump_lir |-> FALSE]
            /\ flagsB = flagsA

Init ==
  /\ files \in ArgLists
  /\ dump_ast \in BOOLEAN /\ dump_hir \in BOOLEAN /\ dump_lir \in BOOLEAN
  /\ do_link \in BOOLEAN
  /\ pc = "args" /\ optind = 1 /\ status = EXIT_SUCCESS
  /\ Shaders = <<>> /\ LinkStatus = FALSE /\ InfoLog = NULL
  /\ exit_code = -1 /\ stdout = <<>>
  /\ lf = lfIdle /\ cs = csIdle
  /\ loads = 0 /\ opens = 0 /\ compiles = 0 /\ links = 0
  /\ idlePair

\* usage_fail(argv[0])
usage_fail ==
  /\ stdout' = stdout \o usage_text
  /\ exit_code' = EXIT_FAILURE
  /\ pc' = "exit"

\* if (argc <= optind) usage_fail(argv[0]);  initialize_context;
\* whole_program = hieralloc_zero(...)
MainArgs ==
  /\ pc = "args"
  /\ IF ~argc_gt_optind
     THEN usage_fail
     ELSE pc' = "loop" /\ UNCHANGED <<stdout, exit_code>>
  /\ UNCHANGED <<files, dump_ast, dump_hir, dump_lir, do_link, optind, status,
                 Shaders, LinkStatus, InfoLog, lf, cs, loads, opens, compiles,
                 links, pairVars>>

\* top of the for body: a new zeroed shader is added to the program, its
\* Type is set from the file name, and load_text_file is entered
LoopBody ==
  /\ pc = "loop" /\ argc_gt_optind
  /\ LET t == shader_type(files[optind])
     IN IF t = "usage_fail"
        THEN /\ Shaders' = Append(Shaders, zeroShader)
             /\ usage_fail
             /\ UNCHANGED <<lf, loads>>
        ELSE /\ Shaders' = Append(Shaders, [zeroShader EXCEPT !.Type = t])
             /\ lf' = [lfIdle EXCEPT !.pc = "open"]
             /\ loads' = loads + 1
             /\ pc' = "load"
             /\ UNCHANGED <<stdout, exit_code>>
  /\ UNCHANGED <<files, dump_ast, dump_hir, dump_lir, do_link, optind, status,
                 LinkStatus, InfoLog, cs, opens, compiles, links, pairVars>>

\* for (; argc > optind; optind++): the condition is false
LoopEnd ==
  /\ pc = "loop" /\ ~argc_gt_optind
  /\ pc' = "link"
  /\ UNCHANGED <<files, dump_ast, dump_hir, dump_lir, do_link, optind, status,
                 Shaders, LinkStatus, InfoLog, exit_code, stdout, lf, cs,
                 loads, opens, compiles, links, pairVars>>

loadFrame == <<files, dump_ast, dump_hir, dump_lir, do_link, pc, optind,
               status, Shaders, LinkStatus, InfoLog, exit_code, stdout, cs,
               loads, compiles, links, pairVars>>

LoadOpen ==
  /\ pc = "load" /\ lf.pc = "open"
  /\ \E ok \in BOOLEAN : lf' = load_open(lf, ok)
  /\ opens' = opens + 1
  /\ UNCHANGED loadFrame

LoadFstat ==
  /\ pc = "load" /\ lf.pc = "fstat"
  /\ \E ok \in BOOLEAN, size \in 0..MaxSize, alloc_ok \in BOOLEAN :
        lf' = load_fstat(lf, ok, size, alloc_ok)
  /\ UNCHANGED <<loadFrame, opens>>

\* read(fd, text + total_read, st.st_size - total_read) answers -1, 0 or
\* a count of at most the bytes asked for
LoadRead ==
  /\ pc = "load" /\ lf.pc = "read"
  /\ \E bytes \in -1..(lf.st_size - lf.total_read) : lf' = load_read(lf, bytes)
  /\ UNCHANGED <<loadFrame, opens>>

LoadTerminate ==
  /\ pc = "load" /\ lf.pc = "terminate"
  /\ \E fault \in BOOLEAN : lf' = load_terminate(lf, fault)
  /\ UNCHANGED <<loadFrame, opens>>

LoadClose ==
  /\ pc = "load" /\ lf.pc = "close"
  /\ lf' = load_close(lf)
  /\ UNCHANGED <<loadFrame, opens>>

\* the null-pointer store killed the process
LoadSegv ==
  /\ pc = "load" /\ lf.pc = "segv"
  /\ pc' = SIGSEGV
  /\ UNCHANGED <<files, dump_ast, dump_hir, dump_lir, do_link, optind, status,
                 Shaders, LinkStatus, InfoLog, exit_code, stdout, lf, cs,
                 loads, opens, compiles, links, pairVars>>

\* shader->Source = load_text_file(...); if (shader->Source == NULL) {
\* printf("File ... does not exist"); exit(EXIT_FAILURE); }
\* compile_shader(ctx, shader);
LoadReturn ==
  /\ pc = "load" /\ lf.pc = "return"
  /\ Shaders' = [Shaders EXCEPT ![NumShaders].Source = lf.text]
  /\ lf' = lfIdle
  /\ IF lf.text = NULL
     THEN /\ stdout' = Append(stdout, "File does not exist.")
          /\ exit_code' = EXIT_FAILURE
          /\ pc' = "exit"
          /\ UNCHANGED <<cs, compiles>>
     ELSE /\ cs' = compile_enter(Shaders'[NumShaders])
          /\ compiles' = compiles + 1
          /\ pc' = "compile"
          /\ UNCHANGED <<stdout, exit_code>>
  /\ UNCHANGED <<files, dump_ast, dump_hir, dump_lir, do_link, optind, status,
                 LinkStatus, InfoLog, loads, opens, links, pairVars>>

compileFrame == <<files, dump_ast, dump_hir, dump_lir, do_link, pc, optind,
                  status, Shaders, LinkStatus, InfoLog, exit_code, stdout, lf,
                  loads, opens, compiles, links, pairVars>>

Preprocess ==
  /\ pc = "compile" /\ cs.pc = "preprocess"
  /\ \E err \in BOOLEAN : cs' = cs_preprocess(cs, err)
  /\ UNCHANGED compileFrame

Parse ==
  /\ pc = "compile" /\ cs.pc = "parse"
  /\ \E err \in BOOLEAN, ast \in AstLists : cs' = cs_parse(cs, err, ast)
  /\ UNCHANGED compileFrame

DumpAst ==
  /\ pc = "compile" /\ cs.pc = "dump_ast"
  /\ cs' = cs_dump_ast(cs, Flags)
  /\ UNCHANGED compileFrame

Lower ==
  /\ pc = "compile" /\ cs.pc = "lower"
  /\ \E err \in BOOLEAN, n \in 0..MaxIR, nb \in BuiltinCounts :
       cs' = cs_lower(cs, err, n, nb)
  /\ UNCHANGED compileFrame

DumpHir ==
  /\ pc = "compile" /\ cs.pc = "dump_hir"
  /\ \E valid \in BOOLEAN : cs' = cs_dump_hir(cs, Flags, valid)
  /\ UNCHANGED compileFrame

OptEnter ==
  /\ pc = "compile" /\ cs.pc = "opt_enter"
  /\ cs' = cs_opt_enter(cs)
  /\ UNCHANGED compileFrame

OptPass ==
  /\ pc = "compile" /\ cs.pc = "opt_pass"
  /\ \E n \in 0..cs.ir : cs' = cs_opt_pass(cs, n)
  /\ UNCHANGED compileFrame

Validate ==
  /\ pc = "compile" /\ cs.pc = "validate"
  /\ \E valid \in BOOLEAN : cs' = cs_validate(cs, valid)
  /\ UNCHANGED compileFrame

DumpLir ==
  /\ pc = "compile" /\ cs.pc = "dump_lir"
  /\ cs' = cs_dump_lir(cs, Flags)
  /\ UNCHANGED compileFrame

Finish ==
  /\ pc = "compile" /\ cs.pc = "finish"
  /\ cs' = cs_finish(cs)
  /\ UNCHANGED compileFrame

\* validate_ir_tree called abort(): the process dies
CompileAbort ==
  /\ pc = "compile" /\ cs.pc = "aborted"
  /\ stdout' = stdout \o cs.out
  /\ pc' = SIGABRT
  /\ UNCHANGED <<files, dump_ast, dump_hir, dump_lir, do_link, optind, status,
                 Shaders, LinkStatus, InfoLog, exit_code, lf, cs, loads, opens,
                 compiles, links, pairVars>>

\* compile_shader returns; if (!shader->CompileStatus) { printf("Info log
\* for ..."); status = EXIT_FAILURE; break; }  otherwise optind++
CompileReturn ==
  /\ pc = "compile" /\ cs.pc = "returned"
  /\ Shaders' = [Shaders EXCEPT ![NumShaders] = cs.shader]
  /\ cs' = csIdle
  /\ IF compile_failed(cs.shader)
     THEN /\ stdout' = stdout \o cs.out \o <<"Info log for file">>
          /\ status' = EXIT_FAILURE
          /\ pc' = "link"
          /\ UNCHANGED optind
     ELSE /\ stdout' = stdout \o cs.out
          /\ optind' = optind + 1
          /\ pc' = "loop"
          /\ UNCHANGED status
  /\ UNCHANGED <<files, dump_ast, dump_hir, dump_lir, do_link, LinkStatus,
                 InfoLog, exit_code, lf, loads, opens, compiles, links,
                 pairVars>>

\* if ((status == EXIT_SUCCESS) && do_link) { link_shaders(...); status =
\* LinkStatus ? EXIT_SUCCESS : EXIT_FAILURE; if (strlen(InfoLog) > 0)
\* printf("Info log for linking") }
Link ==
  /\ pc = "link"
  /\ IF link_wanted(status, do_link)
     THEN \E r \in LinkResults :
            /\ links' = links + 1
            /\ LinkStatus' = r.LinkStatus
            /\ InfoLog' = r.InfoLog
            /\ status' = link_exit_status(r.LinkStatus)
            /\ stdout' = IF log_nonempty(r.InfoLog)
                         THEN Append(stdout, "Info log for linking")
                         ELSE stdout
     ELSE UNCHANGED <<links, LinkStatus, InfoLog, status, stdout>>
  /\ pc' = "cleanup"
  /\ UNCHANGED <<files, dump_ast, dump_hir, dump_lir, do_link, optind,
                 Shaders, exit_code, lf, cs, loads, opens, compiles, pairVars>>

\* hieralloc_free(whole_program); ... return status;
MainReturn ==
  /\ pc = "cleanup"
  /\ exit_code' = status /\ pc' = "exit"
  /\ UNCHANGED <<files, dump_ast, dump_hir, dump_lir, do_link, optind, status,
                 Shaders, LinkStatus, InfoLog, stdout, lf, cs, loads, opens,
                 compiles, links, pairVars>>

Next ==
  \/ MainArgs \/ LoopBody \/ LoopEnd
  \/ LoadOpen \/ LoadFstat \/ LoadRead \/ LoadTerminate \/ LoadClose
  \/ LoadSegv \/ LoadReturn
  \/ Preprocess \/ Parse \/ DumpAst \/ Lower \/ DumpHir \/ OptEnter
  \/ OptPass \/ Validate \/ DumpLir \/ Finish \/ CompileAbort
  \/ CompileReturn \/ Link \/ MainReturn

Spec == Init /\ [][Next]_vars

\* the program runs on until it exits: no step is postponed forever
FairSpec == Spec /\ WF_vars(Next)

(* ------------- one compile_shader run, from entry to return ----------- *)
ValidPaths == { p \in Paths : shader_type(p) # "usage_fail" }

\* main has loaded its only file and enters compile_shader
InitCompile ==
  /\ files \in [1..1 -> ValidPaths]
  /\ dump_ast \in BOOLEAN /\ dump_hir \in BOOLEAN /\ dump_lir \in BOOLEAN
  /\ do_link \in BOOLEAN
  /\ pc = "compile" /\ optind = 1 /\ status = EXIT_SUCCESS
  /\ Shaders = <<[zeroShader EXCEPT !.Type = shader_type(files[1]),
                                    !.Source = "buf"]>>
  /\ LinkStatus = FALSE /\ InfoLog = NULL
  /\ exit_code = -1 /\ stdout = <<>>
  /\ lf = lfIdle /\ cs = compile_enter(Shaders[1])
  /\ loads = 1 /\ opens = 1 /\ compiles = 1 /\ links = 0
  /\ idlePair

NextCompile ==
  \/ Preprocess \/ Parse \/ DumpAst \/ Lower \/ DumpHir \/ OptEnter
  \/ OptPass \/ Validate \/ DumpLir \/ Finish \/ CompileAbort
  \/ CompileReturn

\* compile_shader is straight-line code: every step is taken in turn
SpecCompile == InitCompile /\ [][NextCompile]_vars /\ WF_vars(NextCompile)

(* ------ two compile_shader runs that differ in the dump flags only ---- *)
FlagSets == [dump_ast : BOOLEAN, dump_hir : BOOLEAN, dump_lir : BOOLEAN]

\* what the stage called at one position answers, to both runs alike
Outcomes == [err : BOOLEAN, ast : AstLists, n : 0..MaxIR, valid : BOOLEAN,
             nb : BuiltinCounts]

terminal(s) == s.pc \in {"returned", "aborted"}

InitDump ==
  /\ files = <<>>
  /\ dump_ast = FALSE /\ dump_hir = FALSE /\ dump_lir = FALSE
  /\ do_link = FALSE
  /\ pc = "pair" /\ optind = 1 /\ status = EXIT_SUCCESS
  /\ Shaders = <<>> /\ LinkStatus = FALSE /\ InfoLog = NULL
  /\ exit_code = -1 /\ stdout = <<>>
  /\ lf = lfIdle /\ cs = csIdle
  /\ loads = 0 /\ opens = 0 /\ compiles = 0 /\ links = 0
  /\ flagsA \in FlagSets /\ flagsB \in FlagSets
  /\ \E p \in ValidPaths :
        runA = compile_enter([zeroShader EXCEPT !.Type = shader_type(p),
                                                !.Source = "buf"])
  /\ runB = runA

\* both runs take their next step; the stage called answers both the same
PairStep ==
  /\ pc = "pair"
  /\ ~terminal(runA) \/ ~terminal(runB)
  /\ \E o \in Outcomes :
        /\ runA' = compile_step(runA, flagsA, o)
        /\ runB' = compile_step(runB, flagsB, o)
  /\ UNCHANGED <<mainVars, flagsA, flagsB>>

SpecDump == InitDump /\ [][PairStep]_vars

(* ---- the optimization loop run again on the IR a first run left ------ *)
\* runA is a compile_shader run taken up to the end of its optimization
\* loop; runB is the loop of lines 186-188 entered once more on the
\* instruction list runA left behind
InitReopt ==
  /\ files = <<>>
  /\ dump_ast = FALSE /\ dump_hir = FALSE /\ dump_lir = FALSE
  /\ do_link = FALSE
  /\ pc = "reopt" /\ optind = 1 /\ status = EXIT_SUCCESS
  /\ Shaders = <<>> /\ LinkStatus = FALSE /\ InfoLog = NULL
  /\ exit_code = -1 /\ stdout = <<>>
  /\ lf = lfIdle /\ cs = csIdle
  /\ loads = 0 /\ opens = 0 /\ compiles = 0 /\ links = 0
  /\ flagsA \in FlagSets /\ flagsB = flagsA
  /\ \E p \in ValidPaths :
        runA = compile_enter([zeroShader EXCEPT !.Type = shader_type(p),
                                                !.Source = "buf"])
  /\ runB = csIdle

\* the first run, up to the exit of its loop
ReoptFirst ==
  /\ pc = "reopt" /\ runB.pc = "idle"
  /\ runA.pc \notin {"validate", "returned", "aborted"}
  /\ \E o \in Outcomes : runA' = compile_step(runA, flagsA, o)
  /\ UNCHANGED <<mainVars, runB, flagsA, flagsB>>

\* do {   entered again, on the same shader->ir
ReoptAgain ==
  /\ pc = "reopt" /\ runB.pc = "idle" /\ runA.pc = "validate"
  /\ runB' = [runA EXCEPT !.pc = "opt_pass", !.trace = <<>>]
  /\ UNCHANGED <<mainVars, runA, flagsA, flagsB>>

\* progress = do_common_optimization(...); } while (progress);
ReoptPass ==
  /\ pc = "reopt" /\ runB.pc = "opt_pass"
  /\ \E n \in 0..runB.ir : runB' = cs_opt_pass(runB, n)
  /\ UNCHANGED <<mainVars, runA, flagsA, flagsB>>

NextReopt == ReoptFirst \/ ReoptAgain \/ ReoptPass

SpecReopt == InitReopt /\ [][NextReopt]_vars

(* ======================= properties of the driver ===================== *)
\* the process is over: it exited, or a signal killed it
ended == pc \in {"exit", SIGSEGV, SIGABRT}

Count(seq, x) == Cardinality({ i \in 1..Len(seq) : seq[i] = x })

\* compile_shader has run to its end on unit k
compile_ended(k) ==
  k <= compiles /\ (k < compiles \/ pc # "compile" \/ cs.pc = "returned")
                /\ ~(k = compiles /\ cs.pc = "aborted")

\* the CompileStatus of unit k (of the shader object compile_shader holds
\* while main has not yet resumed)
unit_status(k) ==
  IF k = compiles /\ pc = "compile" THEN cs.shader.CompileStatus
                                    ELSE Shaders[k].CompileStatus

some_unit_failed == \E k \in 1..compiles : compile_ended(k) /\ ~unit_status(k)

\* C1: once compile_shader has ended with CompileStatus false on file k,
\* the loop is over at file k: load_text_file and compile_shader have each
\* been invoked exactly k times, the program holds k units, optind still
\* names file k, and main never goes back to load or compile a later file.
C1_StopsAtFirstFailure ==
  \A k \in 1..compiles :
    (compile_ended(k) /\ ~unit_status(k))
      => /\ loads = k /\ compiles = k /\ opens = k
         /\ NumShaders = k /\ optind = k
         /\ pc \in {"compile", "link", "cleanup", "exit"}
         /\ pc = "compile" => cs.pc = "returned"

\* file 1 of 2 failed to compile and the process has exited
C1_Witness ==
  /\ pc = "exit" /\ Len(files) = 2 /\ exit_code = EXIT_FAILURE
  /\ compiles = 1 /\ loads = 1 /\ NumShaders = 1
  /\ compile_ended(1) /\ ~unit_status(1)

\* C2: link_shaders is invoked at most once, only with --link given and
\* every unit of the program compiled with CompileStatus true; when some
\* unit failed to compile it is never invoked and LinkStatus and the
\* program's InfoLog keep their initial values.
C2_LinkOnlyWhenAllCompiled ==
  /\ links <= 1
  /\ links = 1 => /\ do_link
                  /\ NumShaders = Len(files) /\ compiles = Len(files)
                  /\ \A i \in 1..NumShaders : Shaders[i].CompileStatus
  /\ some_unit_failed => links = 0 /\ LinkStatus = FALSE /\ InfoLog = NULL

\* two units compiled and were linked
C2_Witness ==
  /\ links = 1 /\ NumShaders = 2 /\ pc = "exit"
  /\ \A i \in 1..2 : Shaders[i].CompileStatus

\* the last five characters of a path are none of .vert, .geom, .frag
bad_suffix(path) ==
  \/ Len(path) < 5
  \/ ext(path) \notin { <<".", "v", "e", "r", "t">>, <<".", "g", "e", "o", "m">>,
                        <<".", "f", "r", "a", "g">> }

\* the process ended in usage_fail
usage_error ==
  /\ pc = "exit" /\ exit_code = EXIT_FAILURE
  /\ Len(stdout) >= Len(usage_text)
  /\ SubSeq(stdout, Len(stdout) - Len(usage_text) + 1, Len(stdout)) = usage_text

\* C3 (as claimed): when the command line holds, at any position, a file
\* whose suffix is none of .vert, .geom, .frag, the run ends in a usage
\* error and has opened no file, loaded no source and compiled no unit.
C3_BadSuffixNoIO ==
  (ended /\ \E i \in 1..Len(files) : bad_suffix(files[i]))
     => usage_error /\ loads = 0 /\ opens = 0 /\ compiles = 0

\* every requested file was loaded and compiled with CompileStatus true,
\* and linked with LinkStatus true when --link was given
all_built ==
  /\ Len(files) >= 1
  /\ loads = Len(files) /\ compiles = Len(files) /\ NumShaders = Len(files)
  /\ \A i \in 1..NumShaders :
        Shaders[i].Source # NULL /\ Shaders[i].CompileStatus
  /\ do_link => links = 1 /\ LinkStatus

\* C4: when the process is over, its exit status is EXIT_SUCCESS exactly
\* if at least one file was requested, every requested file was loaded and
\* compiled with CompileStatus true and, with --link, LinkStatus is true
\* after linking; after a usage error, a file that cannot be loaded, a
\* compile failure, a link failure or a fatal signal it is not.
C4_ExitStatus ==
  /\ pc = "exit" => exit_code \in {EXIT_SUCCESS, EXIT_FAILURE}
  /\ ended => ((pc = "exit" /\ exit_code = EXIT_SUCCESS) <=> all_built)

\* two files compiled and linked, exit status 0
C4_Witness ==
  /\ pc = "exit" /\ exit_code = EXIT_SUCCESS
  /\ Len(files) = 2 /\ do_link /\ links = 1 /\ LinkStatus

\* the preprocessor set the error flag of this run
pp_failed(s) == s.info_log # <<>> /\ Head(s.info_log) = "preprocess error"

\* C5: in a compile_shader run whose preprocess step set the error flag,
\* the parser, _mesa_ast_to_hir and do_common_optimization are never
\* invoked, and the run returns with CompileStatus false and the
\* preprocessor's log as the unit's InfoLog.
C5_PreprocessErrorSkipsStages ==
  pp_failed(cs) =>
     /\ cs.error
     /\ Count(cs.trace, "parse") = 0
     /\ Count(cs.trace, "lower") = 0
     /\ Count(cs.trace, "optimize") = 0
     /\ cs.pc = "returned" =>
          /\ ~cs.shader.CompileStatus
          /\ cs.shader.InfoLog = <<"preprocess error">>

\* a run whose preprocess step failed has returned
C5_Witness == cs.pc = "returned" /\ pp_failed(cs) /\ Len(cs.trace) = 1

\* C6 (as claimed): in a run whose preprocess step set the error flag the
\* dump hooks print nothing, whatever the dump flags are.
C6_NoHookOutputAfterPreprocessError ==
  pp_failed(cs) => cs.out = <<>>

\* the stage invocations of a run without those made inside a dump hook
non_hook(trace) == SelectSeq(trace, LAMBDA e : e # "validate (dump-hir)")

\* C7 (as claimed): two runs on the same source with the same stage
\* answers, differing in the dump flags only, make the same non-hook stage
\* invocations, abort alike and end with the same CompileStatus.
C7_DumpFlagsDoNotInfluence ==
  (terminal(runA) /\ terminal(runB)) =>
     /\ non_hook(runA.trace) = non_hook(runB.trace)
     /\ (runA.pc = "aborted") <=> (runB.pc = "aborted")
     /\ runA.shader.CompileStatus = runB.shader.CompileStatus

\* C8 (as claimed): when open fails or a read answers a negative count,
\* load_text_file returns normally, and what it returns is NULL.
C8_LoadFailureReturnsNull ==
  /\ lf.pc # "segv"
  /\ (lf.pc = "return" /\ (lf.fd < 0 \/ lf.bytes < 0)) => lf.text = NULL

\* C9 (as claimed): a buffer that load_text_file returns holds st_size
\* bytes and its terminator sits at index st_size.
C9_BufferHoldsWholeFile ==
  (lf.pc = "return" /\ lf.text # NULL)
     => lf.total_read = lf.st_size /\ lf.nul = lf.st_size

\* C9 (amended): a buffer that load_text_file returns holds the total_read
\* bytes the successful reads delivered, total_read <= st_size, with the
\* terminator at index total_read; total_read = st_size unless the last
\* read answered 0 before the file length was reached.
C9_BufferHoldsBytesRead ==
  (lf.pc = "return" /\ lf.text # NULL)
     => /\ lf.nul = lf.total_read
        /\ lf.total_read <= lf.st_size
        /\ lf.bytes >= 0
        /\ lf.total_read < lf.st_size => lf.bytes = 0

\* a buffer cut short by a read of 0 bytes is returned
C9_Witness ==
  /\ lf.pc = "return" /\ lf.text # NULL
  /\ lf.total_read > 0 /\ lf.total_read < lf.st_size

\* C10: every pass of the optimization loop is followed by another pass
\* exactly if it reported progress, otherwise by the validation after the
\* loop; and with every progress-making pass leaving strictly fewer
\* instructions, a run that has entered the loop leaves it and ends:
\* compile_shader returns, or validate_ir_tree aborts the process.
C10_OptLoopTerminates ==
  /\ [][cs.pc = "opt_pass" =>
          /\ cs'.pc = IF cs'.progress THEN "opt_pass" ELSE "validate"
          /\ Count(cs'.trace, "optimize") = Count(cs.trace, "optimize") + 1]_cs
  /\ (cs.pc = "opt_pass") ~> (cs.pc \in {"returned", "aborted"})

\* a run has returned after a loop of at least two passes
C10_Witness == cs.pc = "returned" /\ Count(cs.trace, "optimize") >= 2


\* C11: the optimization loop is idempotent at fixpoint.  When the loop is
\* run again on the instruction list a first loop run left behind, it
\* makes exactly one pass, that pass reports no progress, and the list is
\* as the first run left it.
C11_IdempotentAtFixpoint ==
  runB.pc # "idle" =>
     /\ runB.ir = runA.ir
     /\ Count(runB.trace, "optimize") <= 1
     /\ runB.pc = "validate" <=> Count(runB.trace, "optimize") = 1
     /\ Count(runB.trace, "optimize") = 1 => ~runB.progress

\* a first run that needed two passes, and the second run at its end with
\* instructions left in the list
C11_Witness ==
  /\ Count(runA.trace, "optimize") = 2
  /\ runB.pc = "validate" /\ runB.ir = 1


\* the units main has got back from compile_shader with CompileStatus false
failed_units ==
  { k \in 1..compiles : /\ k < compiles \/ pc \notin {"compile", SIGABRT}
                        /\ ~Shaders[k].CompileStatus }

\* the process ended in usage_fail: no file was named, or the last unit
\* never got a type
usage_case ==
  /\ pc = "exit"
  /\ Len(files) = 0 \/ (NumShaders >= 1 /\ Shaders[NumShaders].Type = "0")

\* C12: output discipline of the driver.  The info log of a file is
\* printed once for each unit that came back with CompileStatus false and
\* for no other, and only at the return of a failed unit; the link log is
\* printed only after link_shaders was called and only when it is not
\* empty; a run that ends in a usage error has printed the usage text
\* last, and no other run prints it.
C12_OutputDiscipline ==
  /\ [](Count(stdout, "Info log for file") = Cardinality(failed_units))
  /\ [][Count(stdout', "Info log for file") # Count(stdout, "Info log for file")
          => /\ pc = "compile" /\ cs.pc = "returned"
             /\ ~cs.shader.CompileStatus
             /\ Count(stdout', "Info log for file")
                  = Count(stdout, "Info log for file") + 1]_vars
  /\ [](Count(stdout, "Info log for linking")
          = IF links >= 1 /\ InfoLog # "" THEN 1 ELSE 0)
  /\ [](Count(stdout, "usage") = IF usage_case THEN 1 ELSE 0)
  /\ [](usage_case => usage_error)

\* a run that linked two units, got a warning in the link log, printed it
\* and exited
C12_Witness ==
  /\ pc = "exit" /\ links = 1 /\ compiles = 2 /\ InfoLog = "warning"
  /\ stdout[Len(stdout)] = "Info log for linking"


\* the process ended while the last unit had its type but no source: the
\* loader failed on that file
loader_failed ==
  /\ ended /\ NumShaders >= 1
  /\ Shaders[NumShaders].Type # "0" /\ Shaders[NumShaders].Source = NULL

\* C13 (as claimed): when the loader fails on file k, the failure is
\* reported for that file and the build is given up: the process exits
\* with a nonzero status after the message, file k is not compiled, no
\* later file is loaded, and nothing is linked.
C13_LoadFailureReportedAndAborts ==
  loader_failed =>
     /\ pc = "exit" /\ exit_code = EXIT_FAILURE
     /\ stdout[Len(stdout)] = "File does not exist."
     /\ loads = NumShaders /\ compiles = NumShaders - 1 /\ links = 0


\* the kind the three suffixes stand for
kind_of_suffix ==
  [sfx \in { <<".", "v", "e", "r", "t">>, <<".", "g", "e", "o", "m">>,
             <<".", "f", "r", "a", "g">> } |->
     CASE sfx = <<".", "v", "e", "r", "t">> -> GL_VERTEX_SHADER
       [] sfx = <<".", "g", "e", "o", "m">> -> GL_GEOMETRY_SHADER
       [] sfx = <<".", "f", "r", "a", "g">> -> GL_FRAGMENT_SHADER]

last_five(path) == SubSeq(path, Len(path) - 4, Len(path))

\* C14: the kind of a unit is a function of the last five characters of
\* its path alone: .vert, .geom, .frag give vertex, geometry, fragment; a
\* path with another suffix or of fewer than six characters gets no kind,
\* and the run ends there in a usage error before the file is loaded; a
\* kind once written is never changed, by main or inside compile_shader.
C14_KindFromSuffix ==
  /\ [](\A i \in 1..NumShaders :
          IF Len(files[i]) >= 6 /\ last_five(files[i]) \in DOMAIN kind_of_suffix
          THEN Shaders[i].Type = kind_of_suffix[last_five(files[i])]
          ELSE /\ Shaders[i].Type = "0"
               /\ i = NumShaders /\ usage_error /\ loads = i - 1)
  /\ [](pc = "compile" => cs.shader.Type = Shaders[NumShaders].Type)
  /\ [][\A i \in 1..NumShaders : Shaders'[i].Type = Shaders[i].Type]_vars

\* a run that gave the seven-character aa.geom the geometry kind and
\* ended in a usage error on the bare name .vert
C14_Witness ==
  /\ usage_error /\ NumShaders = 2
  /\ Len(files[1]) = 7 /\ Shaders[1].Type = GL_GEOMETRY_SHADER
  /\ files[2] = <<".", "v", "e", "r", "t">> /\ Shaders[2].Type = "0"


\* the place of a stage in the pipeline; the validations are no stages
stage_rank(x) ==
  CASE x = "preprocess" -> 1
    [] x = "parse"      -> 2
    [] x = "lower"      -> 3
    [] x = "optimize"   -> 4
    [] OTHER            -> 0

is_stage(x) == stage_rank(x) > 0

\* the stages of a trace are in pipeline order, none but the optimization
\* pass more than once, and the passes are next to each other
forwards_only(trace) ==
  LET st == SelectSeq(trace, is_stage)
  IN /\ \A i, j \in 1..Len(st) :
          i < j => \/ stage_rank(st[i]) < stage_rank(st[j])
                   \/ st[i] = "optimize" /\ st[j] = "optimize"
     /\ \A i, j, k \in 1..Len(trace) :
          (i < j /\ j < k /\ trace[i] = "optimize" /\ trace[k] = "optimize")
             => trace[j] = "optimize"
     /\ st # <<>> => st[1] = "preprocess"

\* C15: a unit goes through the pipeline once and only forwards.  In one
\* compile_shader run preprocess, parse, lower and the optimization loop
\* come in that order, each at most once, the passes of the loop next to
\* each other; and compile_shader is called at most once for a unit: each
\* call is for the unit just appended, whose CompileStatus was never
\* written, and starts a run of its own.
C15_OncePerUnitForwardsOnly ==
  /\ [](forwards_only(cs.trace))
  /\ [](compiles <= NumShaders)
  /\ [][compiles' # compiles
          => /\ compiles' = compiles + 1 /\ compiles' = NumShaders
             /\ NumShaders' = NumShaders
             /\ ~Shaders[NumShaders].CompileStatus
             /\ Shaders[NumShaders].InfoLog = NULL
             /\ cs.pc = "idle" /\ cs'.pc = "preprocess" /\ cs'.trace = <<>>]_vars

\* the run on a second unit has gone through all four stages, with two
\* passes of the loop, and returned
C15_Witness ==
  /\ pc = "compile" /\ compiles = 2 /\ cs.pc = "returned"
  /\ SelectSeq(cs.trace, is_stage)
       = <<"preprocess", "parse", "lower", "optimize", "optimize">>


\* the log holds an error recorded by preprocessing or by the parser
early_error(s) ==
  \E i \in 1..Len(s.info_log) :
     s.info_log[i] \in {"preprocess error", "syntax error"}

\* the run is past the place of the lowering
past_lower(s) ==
  s.pc \in {"dump_hir", "opt_enter", "opt_pass", "validate", "dump_lir",
            "finish", "returned", "aborted"}

\* C16: lowering is called if and only if preprocessing and parsing
\* recorded no error and the AST list is not empty, and then once; a run
\* without such an error and with an empty AST list returns with an empty
\* instruction list, no lowering, no optimization pass and CompileStatus
\* true.
C16_LoweringGuard ==
  /\ ~past_lower(cs) => Count(cs.trace, "lower") = 0
  /\ past_lower(cs) =>
        /\ Count(cs.trace, "lower") <= 1
        /\ Count(cs.trace, "lower") = 1
             <=> (~early_error(cs) /\ cs.translation_unit # <<>>)
  /\ (cs.pc = "returned" /\ ~early_error(cs) /\ cs.translation_unit = <<>>)
        => /\ cs.ir = 0
           /\ Count(cs.trace, "lower") = 0
           /\ Count(cs.trace, "optimize") = 0
           /\ cs.shader.CompileStatus

\* a run whose source parsed without error to an empty AST list has
\* returned
C16_Witness ==
  /\ cs.pc = "returned" /\ cs.trace = <<"preprocess", "parse">>
  /\ cs.translation_unit = <<>> /\ cs.shader.CompileStatus


\* the run is past the optimization block
past_opt(s) == s.pc \in {"dump_lir", "finish", "returned"}

\* C17: the optimization loop is entered if and only if no earlier stage,
\* lowering included, recorded an error and the instruction list is not
\* empty.  Entered, it makes at least one pass, every pass gets the budget
\* 32, and the list is validated once, after the last pass and before
\* CompileStatus is written; not entered, there is no pass and no
\* validation after the place of the loop.
C17_OptimizationGuard ==
  /\ (cs.pc = "opt_pass" /\ Count(cs.trace, "optimize") = 0)
        => ~cs.error /\ cs.ir # 0
  /\ (past_opt(cs) /\ Count(cs.trace, "optimize") = 0)
        => /\ cs.error \/ cs.ir = 0
           /\ Count(cs.trace, "validate") = 0
           /\ cs.budgets = {}
  /\ (cs.pc # "idle" /\ Count(cs.trace, "optimize") >= 1)
        => /\ cs.budgets = {32}
           /\ cs.pc \in {"opt_pass", "validate"}
                => Count(cs.trace, "validate") = 0 /\ cs.status_writes = 0
           /\ cs.pc \notin {"opt_pass", "validate"}
                => /\ Count(cs.trace, "validate") = 1
                   /\ cs.trace[Len(cs.trace)] = "validate"
                   /\ cs.trace[Len(cs.trace) - 1] = "optimize"
  /\ cs.pc \in {"validate", "aborted"} => cs.status_writes = 0
  /\ cs.pc = "validate" => Count(cs.trace, "optimize") >= 1

\* a run that entered the loop has left it after two passes and has had
\* its list validated
C17_Witness ==
  /\ cs.pc = "dump_lir" /\ cs.budgets = {32}
  /\ Count(cs.trace, "optimize") = 2 /\ Count(cs.trace, "validate") = 1


\* C18: in a compile_shader run CompileStatus is written once, at the end
\* of the run, and it is true if and only if no stage that ran recorded an
\* error; an error once recorded stays recorded to the end of the run, so
\* that a run with an error cannot end with CompileStatus true.
C18_StatusWrittenOnce ==
  /\ [](cs.pc \notin {"idle", "returned"}
          => cs.status_writes = 0 /\ ~cs.shader.CompileStatus)
  /\ [](cs.pc = "returned"
          => /\ cs.status_writes = 1
             /\ cs.shader.CompileStatus <=> cs.info_log = <<>>
             /\ cs.shader.CompileStatus <=> ~cs.error)
  /\ [][(cs.error /\ cs'.pc # "idle")
          => cs'.error /\ ~cs'.shader.CompileStatus]_vars

\* a run in which lowering recorded the only error has returned with
\* CompileStatus false
C18_Witness ==
  /\ cs.pc = "returned" /\ cs.info_log = <<"semantic error">>
  /\ cs.status_writes = 1 /\ ~cs.shader.CompileStatus


\* the objects the unit points to once the run is over: its log, its
\* symbol table, its instruction list and the instructions in it
unit_refs == {"info_log", "symbols", "ir_list", "ir_nodes"}

\* C19: on every path through compile_shader the parse state created for
\* the run is freed exactly once, as the last step of the run: after
\* status, version, builtin list and log were copied to the unit and after
\* the instructions left in the list were reparented to the unit; once it
\* is freed, nothing the unit points to is owned by it.
C19_StateReleasedOnceAtEnd ==
  /\ cs.pc \notin {"idle", "returned"} => cs.frees = 0 /\ cs.fin = <<>>
  /\ cs.pc = "returned"
       => /\ cs.frees = 1
          /\ cs.fin = <<"copy", "reparent", "free">>
          /\ \A o \in unit_refs : cs.owner[o] # "state"
          /\ cs.owner.ir_list = "shader" /\ cs.owner.info_log = "shader"
          /\ cs.ir > 0 => cs.owner.ir_nodes = "shader"

\* a run in which lowering left instructions and recorded an error has
\* returned: the instructions were reparented, the state freed
C19_Witness ==
  /\ cs.pc = "returned" /\ cs.error /\ cs.frees = 1
  /\ cs.ir > 0 /\ cs.owner.ir_nodes = "shader"


\* C20 (as claimed): at the copy-out of compile_shader the builtin
\* references copied never exceed what the unit's array holds: whatever
\* the parse state's count is, the copy writes at most BuiltinsCapacity
\* entries and the count stored in the unit is at most BuiltinsCapacity.
C20_BuiltinCopyWithinCapacity ==
  cs.pc = "returned"
     => /\ cs.unit_builtins.written <= BuiltinsCapacity
        /\ cs.unit_builtins.count <= BuiltinsCapacity

====
